---- MODULE Spec2Model ----
(***************************************************************************)
(* patrol_bot (src/main.py): a model of one edit-kind job,                 *)
(* process_revision_subset, and of the should_patrol_* decision functions. *)
(*                                                                         *)
(* Python strings are sequences of atoms.  An atom is one character, or a  *)
(* fixed literal of the source (" */ ", an appendix of tidy_description)   *)
(* that no operation of the program ever looks into.                       *)
(***************************************************************************)
EXTENDS Integers, Sequences, FiniteSets, TLC

\* Bounds of the model.
MaxRows == 2        \* rows a replica query returns
MaxAliases == 1     \* entries of an add / remove list of an alias diff

----------------------------------------------------------------------------
(* Sequences and Python string helpers                                     *)

RECURSIVE SeqsUpTo(_, _)
SeqsUpTo(S, n) ==
    IF n = 0 THEN { <<>> }
    ELSE LET shorter == SeqsUpTo(S, n - 1)
         IN  shorter \cup { Append(s, x) : s \in { t \in shorter : Len(t) = n - 1 }, x \in S }

Range(s) == { s[n] : n \in 1..Len(s) }

\* prefix.startswith / str.startswith
StartsWith(s, p) == Len(s) >= Len(p) /\ SubSeq(s, 1, Len(p)) = p

\* s[2:-2]
SliceTwoMinusTwo(s) == SubSeq(s, 3, Len(s) - 2)

\* str(SiteLink): the link rendered as wikitext on its own site, [[title]]
StrSiteLink(title) == <<"[", "[">> \o title \o <<"]", "]">>

Separator == <<",", " ">>

\* description.split(', '): non-overlapping occurrences, left to right
RECURSIVE SplitFrom(_, _, _)
SplitFrom(s, from, cur) ==
    IF from > Len(s) THEN << cur >>
    ELSE IF from + 1 <= Len(s) /\ SubSeq(s, from, from + 1) = Separator
         THEN << cur >> \o SplitFrom(s, from + 2, <<>>)
         ELSE SplitFrom(s, from + 1, Append(cur, s[from]))

Split(s) == SplitFrom(s, 1, <<>>)

\* ', '.join(parts)
RECURSIVE Join(_)
Join(parts) ==
    IF Len(parts) = 0 THEN <<>>
    ELSE IF Len(parts) = 1 THEN parts[1]
    ELSE parts[1] \o Separator \o Join(Tail(parts))

----------------------------------------------------------------------------
(* Edit kinds, their summary grammars and their decision functions         *)

SitelinkActions == { "wbsetsitelink-remove", "wbsetsitelink-add" }
LabelActions == { "wbsetlabel-add", "wbsetlabel-set", "wbsetlabel-remove" }
DescriptionActions ==
    { "wbsetdescription-add", "wbsetdescription-set", "wbsetdescription-remove" }
AliasActions ==
    { "wbsetaliases-add", "wbsetaliases-remove", "wbsetaliases-set", "wbsetaliases-update" }
DeletionActions == { "clientsitelink-remove" }

Actions ==
    SitelinkActions \cup LabelActions \cup DescriptionActions \cup AliasActions
        \cup DeletionActions

Lower == { "a", "b", "d", "e", "n" }
Digits == { "1", "2" }

\* the character class of group 2 in the caller's pattern
KeyClass(act) ==
    IF act \in SitelinkActions THEN Lower \cup { "_" }
    ELSE IF act \in DeletionActions THEN Lower \cup { "-" }
    ELSE Lower \cup Digits \cup { "-" }

\* the literal between group 1 and group 2: \| or \|\|
KeyBars(act) == IF act \in DeletionActions THEN <<"|", "|">> ELSE <<"|">>

\* the caller's check_function
CheckFunction(act) ==
    CASE act = "wbsetsitelink-remove" -> "should_patrol_sitelink_removal"
      [] act = "wbsetsitelink-add" -> "should_patrol_sitelink_addition"
      [] act \in { "wbsetlabel-add", "wbsetlabel-set" } -> "should_patrol_label_modification"
      [] act = "wbsetlabel-remove" -> "should_patrol_label_removal"
      [] act \in { "wbsetdescription-add", "wbsetdescription-set" } ->
            "should_patrol_description_modification"
      [] act = "wbsetdescription-remove" -> "should_patrol_description_removal"
      [] act = "wbsetaliases-add" -> "should_patrol_alias_additions"
      [] act = "wbsetaliases-remove" -> "should_patrol_alias_removals"
      [] act \in { "wbsetaliases-set", "wbsetaliases-update" } ->
            "should_patrol_alias_modifications"
      [] OTHER -> "should_patrol_sitelink_deletion"

\* action.startswith('wbsetaliases-')
IsAliasAction(act) == act \in AliasActions

\* the summary's fixed beginning, "/* <action>:", which the query's LIKE selects
Prefix(act) == <<"/* ", act, ":">>

\* length of the longest run of atoms of class cls in s starting at position from
RECURSIVE RunLen(_, _, _)
RunLen(s, from, cls) ==
    IF from <= Len(s) /\ s[from] \in cls THEN 1 + RunLen(s, from + 1, cls) ELSE 0

NoMatch == [matched |-> FALSE]

\* re_match with one key class for every kind: [a-z0-9_-]+
re_match_any_key(act, text) ==
    LET p == Prefix(act)
        idFrom == Len(p) + 1
        idLen == RunLen(text, idFrom, Digits)
        barFrom == idFrom + idLen
        bars == KeyBars(act)
        keyFrom == barFrom + Len(bars)
        keyLen == RunLen(text, keyFrom, Lower \cup Digits \cup { "_", "-" })
        endFrom == keyFrom + keyLen
    IN  IF /\ StartsWith(text, p)
           /\ idLen >= 1
           /\ keyFrom - 1 <= Len(text)
           /\ SubSeq(text, barFrom, keyFrom - 1) = bars
           /\ keyLen >= 1
           /\ endFrom <= Len(text)
           /\ text[endFrom] = " */ "
        THEN [matched |-> TRUE,
              group1 |-> SubSeq(text, idFrom, barFrom - 1),
              group2 |-> SubSeq(text, keyFrom, endFrom - 1),
              group3 |-> SubSeq(text, endFrom + 1, Len(text))]
        ELSE NoMatch

\* re_match(pattern, comment) for pattern ^\/\* {action}:(\d+)<bars>(<class>+) \*\/ (.*)$
\* Every repetition is followed by a literal outside its class, so the only
\* possible match takes each run whole.  Summaries hold no line break.
re_match(act, text) ==
    LET p == Prefix(act)
        idFrom == Len(p) + 1
        idLen == RunLen(text, idFrom, Digits)
        barFrom == idFrom + idLen
        bars == KeyBars(act)
        keyFrom == barFrom + Len(bars)
        keyLen == RunLen(text, keyFrom, KeyClass(act))
        endFrom == keyFrom + keyLen
    IN  IF /\ StartsWith(text, p)
           /\ idLen >= 1
           /\ keyFrom - 1 <= Len(text)
           /\ SubSeq(text, barFrom, keyFrom - 1) = bars
           /\ keyLen >= 1
           /\ endFrom <= Len(text)
           /\ text[endFrom] = " */ "
        THEN [matched |-> TRUE,
              group1 |-> SubSeq(text, idFrom, barFrom - 1),
              group2 |-> SubSeq(text, keyFrom, endFrom - 1),
              group3 |-> SubSeq(text, endFrom + 1, Len(text))]
        ELSE NoMatch

----------------------------------------------------------------------------
(* Live state of the subject entity, as the remote calls of one decision   *)
(* report it.  fail names the one call that raises, if any: the decision   *)
(* functions end at the first exception, caught or not.                    *)

NoFail == [call |-> "none", exc |-> "none"]
NoItem == "none"

Failed(live, call) == live.fail.call = call

\* what a decision function does: return a bool, or let an exception out
Ret(b) == [kind |-> "return", val |-> b]
Raise(e) == [kind |-> "raise", exc |-> e]

\* the value of an intent: the summary's text, an alias diff, or None
StrValue(s) == [t |-> "str", s |-> s]
DictValue(a, r) == [t |-> "dict", add |-> a, remove |-> r]
NoneValue == [t |-> "None"]

\* not mapping: Python truth of a dict-like attribute of the item
IsEmpty(mapping) == DOMAIN mapping = {}

\* [ x for x in list if x in members ] / if x not in members
Present(list, members) == SelectSeq(list, LAMBDA x : x \in members)
Absent(list, members) == SelectSeq(list, LAMBDA x : x \notin members)

\* second attempt of the site-link functions: which item is connected to the page;
\* caught names the exceptions of project_page.exists() the function catches
ConnectedElsewhere(qid, live, caught) ==
    IF Failed(live, "fromDBName") THEN Raise(live.fail.exc)
    ELSE IF Failed(live, "page.exists") THEN
        IF live.fail.exc \in caught THEN Ret(FALSE) ELSE Raise(live.fail.exc)
    ELSE IF ~live.page_exists THEN Ret(TRUE)
    ELSE IF Failed(live, "fromPage") THEN Raise(live.fail.exc)
    ELSE IF live.connected = NoItem THEN Ret(FALSE)   \* NoPageError
    ELSE IF qid # live.connected THEN Ret(TRUE)
    ELSE Ret(FALSE)

\* the except clause of sitelinks.get names pwb.exceptions.NoUsername, the earlier
\* name of NoUsernameError
should_patrol_sitelink_removal(qid, key, value, live) ==
    IF Failed(live, "exists") THEN Raise(live.fail.exc)
    ELSE IF ~live.exists THEN Ret(FALSE)
    ELSE IF Failed(live, "isRedirectPage") THEN Raise(live.fail.exc)
    ELSE IF live.isRedirect THEN Ret(FALSE)
    ELSE IF Failed(live, "get") THEN Raise(live.fail.exc)
    ELSE IF IsEmpty(live.sitelinks) THEN Ret(FALSE)
    ELSE IF Failed(live, "sitelinks.get") THEN
        IF live.fail.exc = "NoUsernameError" THEN Ret(FALSE) ELSE Raise(live.fail.exc)
    ELSE IF /\ key \in DOMAIN live.sitelinks
            /\ SliceTwoMinusTwo(StrSiteLink(live.sitelinks[key])) = value.s
         THEN Ret(TRUE)
    ELSE ConnectedElsewhere(qid, live, { "InvalidTitleError" })

should_patrol_sitelink_addition(qid, key, value, live) ==
    IF Failed(live, "exists") THEN Raise(live.fail.exc)
    ELSE IF ~live.exists THEN Ret(FALSE)
    ELSE IF Failed(live, "isRedirectPage") THEN Raise(live.fail.exc)
    ELSE IF live.isRedirect THEN Ret(TRUE)
    ELSE IF Failed(live, "get") THEN Raise(live.fail.exc)
    ELSE IF IsEmpty(live.sitelinks) THEN Ret(TRUE)
    ELSE IF key \notin DOMAIN live.sitelinks THEN Ret(TRUE)
    ELSE IF Failed(live, "sitelinks.get") THEN
        IF live.fail.exc = "NoUsernameError" THEN Ret(FALSE) ELSE Raise(live.fail.exc)
    ELSE IF SliceTwoMinusTwo(StrSiteLink(live.sitelinks[key])) # value.s THEN Ret(TRUE)
    ELSE ConnectedElsewhere(qid, live, { "InvalidTitleError", "UnsupportedPageError" })

should_patrol_label_removal(qid, key, value, live) ==
    IF Failed(live, "exists") THEN
        IF live.fail.exc = "ValueError" THEN Ret(FALSE) ELSE Raise(live.fail.exc)
    ELSE IF ~live.exists THEN Ret(FALSE)
    ELSE IF Failed(live, "isRedirectPage") THEN Raise(live.fail.exc)
    ELSE IF live.isRedirect THEN Ret(TRUE)
    ELSE IF Failed(live, "get") THEN Raise(live.fail.exc)
    ELSE IF IsEmpty(live.labels) THEN Ret(FALSE)
    ELSE IF key \notin DOMAIN live.labels THEN Ret(FALSE)
    ELSE IF live.labels[key] = value.s THEN Ret(TRUE)
    ELSE Ret(FALSE)

\* should_patrol_label_modification with the last comparison turned round
label_modification_same_label(qid, key, value, live) ==
    IF Failed(live, "exists") THEN Raise(live.fail.exc)
    ELSE IF ~live.exists THEN Ret(FALSE)
    ELSE IF Failed(live, "isRedirectPage") THEN Raise(live.fail.exc)
    ELSE IF live.isRedirect THEN Ret(TRUE)
    ELSE IF Failed(live, "get") THEN Raise(live.fail.exc)
    ELSE IF IsEmpty(live.labels) THEN Ret(TRUE)
    ELSE IF key \notin DOMAIN live.labels THEN Ret(TRUE)
    ELSE IF live.labels[key] = value.s THEN Ret(TRUE)
    ELSE Ret(FALSE)

\* a label the item holds is a string, so labels.get(key) is not None once key is in labels
should_patrol_label_modification(qid, key, value, live) ==
    IF Failed(live, "exists") THEN Raise(live.fail.exc)
    ELSE IF ~live.exists THEN Ret(FALSE)
    ELSE IF Failed(live, "isRedirectPage") THEN Raise(live.fail.exc)
    ELSE IF live.isRedirect THEN Ret(TRUE)
    ELSE IF Failed(live, "get") THEN Raise(live.fail.exc)
    ELSE IF IsEmpty(live.labels) THEN Ret(TRUE)
    ELSE IF key \notin DOMAIN live.labels THEN Ret(TRUE)
    ELSE IF live.labels[key] # value.s THEN Ret(TRUE)
    ELSE Ret(FALSE)

\* should_patrol_description_removal denying on a redirect
description_removal_redirect_denied(qid, key, value, live) ==
    IF Failed(live, "exists") THEN Raise(live.fail.exc)
    ELSE IF ~live.exists THEN Ret(FALSE)
    ELSE IF Failed(live, "isRedirectPage") THEN Raise(live.fail.exc)
    ELSE IF live.isRedirect THEN Ret(FALSE)
    ELSE IF Failed(live, "get") THEN Raise(live.fail.exc)
    ELSE IF IsEmpty(live.descriptions) THEN Ret(FALSE)
    ELSE IF key \notin DOMAIN live.descriptions THEN Ret(FALSE)
    ELSE IF live.descriptions[key] = value.s THEN Ret(TRUE)
    ELSE Ret(FALSE)

should_patrol_description_removal(qid, key, value, live) ==
    IF Failed(live, "exists") THEN Raise(live.fail.exc)
    ELSE IF ~live.exists THEN Ret(FALSE)
    ELSE IF Failed(live, "isRedirectPage") THEN Raise(live.fail.exc)
    ELSE IF live.isRedirect THEN Ret(TRUE)
    ELSE IF Failed(live, "get") THEN Raise(live.fail.exc)
    ELSE IF IsEmpty(live.descriptions) THEN Ret(FALSE)
    ELSE IF key \notin DOMAIN live.descriptions THEN Ret(FALSE)
    ELSE IF live.descriptions[key] = value.s THEN Ret(TRUE)
    ELSE Ret(FALSE)

appendices ==
    { <<"#suggestededit-add 1.0">>,
      <<"#suggestededit-translate 1.0">>,
      <<"([[w:en:Wikipedia:Shortdesc helper|Shortdesc helper]])">> }

tidy_description(description) ==
    IF "," \notin Range(description) THEN description
    ELSE LET parts == Split(description)
         IN  IF parts[Len(parts)] \notin appendices THEN description
             ELSE Join(SubSeq(parts, 1, Len(parts) - 1))

should_patrol_description_modification(qid, key, value, live) ==
    LET tidied == tidy_description(value.s)
    IN  IF Failed(live, "exists") THEN Raise(live.fail.exc)
        ELSE IF ~live.exists THEN Ret(FALSE)
        ELSE IF Failed(live, "isRedirectPage") THEN Raise(live.fail.exc)
        ELSE IF live.isRedirect THEN Ret(TRUE)
        ELSE IF Failed(live, "get") THEN Raise(live.fail.exc)
        ELSE IF IsEmpty(live.descriptions) THEN Ret(TRUE)
        ELSE IF key \notin DOMAIN live.descriptions THEN Ret(TRUE)
        ELSE IF live.descriptions[key] # tidied THEN Ret(TRUE)
        ELSE Ret(FALSE)

\* should_patrol_alias_additions approving as soon as one added alias is gone
alias_additions_any_gone(qid, key, value, live) ==
    IF value = NoneValue THEN Ret(FALSE)
    ELSE IF Len(value.remove) > 0 THEN Ret(FALSE)
    ELSE IF Failed(live, "exists") THEN Raise(live.fail.exc)
    ELSE IF ~live.exists THEN Ret(FALSE)
    ELSE IF Failed(live, "isRedirectPage") THEN Raise(live.fail.exc)
    ELSE IF live.isRedirect THEN Ret(TRUE)
    ELSE IF Failed(live, "get") THEN Raise(live.fail.exc)
    ELSE IF IsEmpty(live.aliases) THEN Ret(TRUE)
    ELSE IF key \notin DOMAIN live.aliases THEN Ret(TRUE)
    ELSE LET aliases_gone == Absent(value.add, live.aliases[key])
         IN  IF Len(aliases_gone) > 0 THEN Ret(TRUE) ELSE Ret(FALSE)

should_patrol_alias_additions(qid, key, value, live) ==
    IF value = NoneValue THEN Ret(FALSE)
    ELSE IF Len(value.remove) > 0 THEN Ret(FALSE)
    ELSE IF Failed(live, "exists") THEN Raise(live.fail.exc)
    ELSE IF ~live.exists THEN Ret(FALSE)
    ELSE IF Failed(live, "isRedirectPage") THEN Raise(live.fail.exc)
    ELSE IF live.isRedirect THEN Ret(TRUE)
    ELSE IF Failed(live, "get") THEN Raise(live.fail.exc)
    ELSE IF IsEmpty(live.aliases) THEN Ret(TRUE)
    ELSE IF key \notin DOMAIN live.aliases THEN Ret(TRUE)
    ELSE LET aliases_still_existing == Present(value.add, live.aliases[key])
         IN  IF Len(aliases_still_existing) = 0 THEN Ret(TRUE) ELSE Ret(FALSE)

\* should_patrol_alias_removals counting the removed aliases that are present
alias_removals_none_present(qid, key, value, live) ==
    IF value = NoneValue THEN Ret(FALSE)
    ELSE IF Len(value.add) > 0 THEN Ret(FALSE)
    ELSE IF Failed(live, "exists") THEN Raise(live.fail.exc)
    ELSE IF ~live.exists THEN Ret(FALSE)
    ELSE IF Failed(live, "isRedirectPage") THEN Raise(live.fail.exc)
    ELSE IF live.isRedirect THEN Ret(TRUE)
    ELSE IF Failed(live, "get") THEN Raise(live.fail.exc)
    ELSE IF IsEmpty(live.aliases) THEN Ret(FALSE)
    ELSE IF key \notin DOMAIN live.aliases THEN Ret(FALSE)
    ELSE LET aliases_present == Present(value.remove, live.aliases[key])
         IN  IF Len(aliases_present) = 0 THEN Ret(TRUE) ELSE Ret(FALSE)

should_patrol_alias_removals(qid, key, value, live) ==
    IF value = NoneValue THEN Ret(FALSE)
    ELSE IF Len(value.add) > 0 THEN Ret(FALSE)
    ELSE IF Failed(live, "exists") THEN Raise(live.fail.exc)
    ELSE IF ~live.exists THEN Ret(FALSE)
    ELSE IF Failed(live, "isRedirectPage") THEN Raise(live.fail.exc)
    ELSE IF live.isRedirect THEN Ret(TRUE)
    ELSE IF Failed(live, "get") THEN Raise(live.fail.exc)
    ELSE IF IsEmpty(live.aliases) THEN Ret(FALSE)
    ELSE IF key \notin DOMAIN live.aliases THEN Ret(FALSE)
    ELSE LET aliases_still_missing == Absent(value.remove, live.aliases[key])
         IN  IF Len(aliases_still_missing) = 0 THEN Ret(TRUE) ELSE Ret(FALSE)

\* should_patrol_alias_modifications testing for None only after the redirect
alias_modifications_late_none(qid, key, value, live) ==
    IF Failed(live, "exists") THEN Raise(live.fail.exc)
    ELSE IF ~live.exists THEN Ret(FALSE)
    ELSE IF Failed(live, "isRedirectPage") THEN Raise(live.fail.exc)
    ELSE IF live.isRedirect THEN Ret(TRUE)
    ELSE IF value = NoneValue THEN Ret(FALSE)
    ELSE IF Failed(live, "get") THEN Raise(live.fail.exc)
    ELSE IF Len(value.remove) > 0 /\ IsEmpty(live.aliases) THEN Ret(FALSE)
    ELSE IF Len(value.remove) > 0 /\ key \notin DOMAIN live.aliases THEN Ret(FALSE)
    ELSE LET known == key \in DOMAIN live.aliases
             aliases_still_missing ==
                 IF Len(value.remove) = 0 THEN <<>>
                 ELSE Absent(value.remove, live.aliases[key])
             aliases_still_existing ==
                 IF IsEmpty(live.aliases) \/ ~known THEN <<>>
                 ELSE Present(value.add, live.aliases[key])
         IN  IF Len(aliases_still_missing) = 0 /\ Len(aliases_still_existing) = 0
             THEN Ret(TRUE)
             ELSE Ret(FALSE)

\* should_patrol_alias_modifications without the look at the added aliases
alias_modifications_removed_only(qid, key, value, live) ==
    IF value = NoneValue THEN Ret(FALSE)
    ELSE IF Failed(live, "exists") THEN Raise(live.fail.exc)
    ELSE IF ~live.exists THEN Ret(FALSE)
    ELSE IF Failed(live, "isRedirectPage") THEN Raise(live.fail.exc)
    ELSE IF live.isRedirect THEN Ret(TRUE)
    ELSE IF Failed(live, "get") THEN Raise(live.fail.exc)
    ELSE IF Len(value.remove) > 0 /\ IsEmpty(live.aliases) THEN Ret(FALSE)
    ELSE IF Len(value.remove) > 0 /\ key \notin DOMAIN live.aliases THEN Ret(FALSE)
    ELSE LET aliases_still_missing ==
                 IF Len(value.remove) = 0 THEN <<>>
                 ELSE Absent(value.remove, live.aliases[key])
         IN  IF Len(aliases_still_missing) = 0 THEN Ret(TRUE) ELSE Ret(FALSE)

should_patrol_alias_modifications(qid, key, value, live) ==
    IF value = NoneValue THEN Ret(FALSE)
    ELSE IF Failed(live, "exists") THEN Raise(live.fail.exc)
    ELSE IF ~live.exists THEN Ret(FALSE)
    ELSE IF Failed(live, "isRedirectPage") THEN Raise(live.fail.exc)
    ELSE IF live.isRedirect THEN Ret(TRUE)
    ELSE IF Failed(live, "get") THEN Raise(live.fail.exc)
    ELSE IF Len(value.remove) > 0 /\ IsEmpty(live.aliases) THEN Ret(FALSE)
    ELSE IF Len(value.remove) > 0 /\ key \notin DOMAIN live.aliases THEN Ret(FALSE)
    ELSE LET known == key \in DOMAIN live.aliases
             \* over an empty remove list the comprehension never reads aliases.get(key)
             aliases_still_missing ==
                 IF Len(value.remove) = 0 THEN <<>>
                 ELSE Absent(value.remove, live.aliases[key])
             aliases_still_existing ==
                 IF IsEmpty(live.aliases) \/ ~known THEN <<>>
                 ELSE Present(value.add, live.aliases[key])
         IN  IF Len(aliases_still_missing) = 0 /\ Len(aliases_still_existing) = 0
             THEN Ret(TRUE)
             ELSE Ret(FALSE)

should_patrol_sitelink_deletion(qid, key, value, live) == Ret(TRUE)

\* check_function(qid=qid, key=key, value=value) for the job's action
check_function(act, qid, key, value, live) ==
    LET f == CheckFunction(act)
    IN  CASE f = "should_patrol_sitelink_removal" ->
                should_patrol_sitelink_removal(qid, key, value, live)
          [] f = "should_patrol_sitelink_addition" ->
                should_patrol_sitelink_addition(qid, key, value, live)
          [] f = "should_patrol_label_removal" ->
                should_patrol_label_removal(qid, key, value, live)
          [] f = "should_patrol_label_modification" ->
                should_patrol_label_modification(qid, key, value, live)
          [] f = "should_patrol_description_removal" ->
                should_patrol_description_removal(qid, key, value, live)
          [] f = "should_patrol_description_modification" ->
                should_patrol_description_modification(qid, key, value, live)
          [] f = "should_patrol_alias_additions" ->
                should_patrol_alias_additions(qid, key, value, live)
          [] f = "should_patrol_alias_removals" ->
                should_patrol_alias_removals(qid, key, value, live)
          [] f = "should_patrol_alias_modifications" ->
                should_patrol_alias_modifications(qid, key, value, live)
          [] OTHER -> should_patrol_sitelink_deletion(qid, key, value, live)

----------------------------------------------------------------------------
(* The Diff Alias Extractor                                                *)

\* get_revision_diff on the response of the compare call
get_revision_diff(payload) ==
    IF payload.error # "none" THEN Raise(payload.error)   \* requests.get / response.json()
    ELSE IF ~payload.compare THEN Raise("RuntimeError")
    ELSE IF ~payload.star THEN Raise("RuntimeError")
    ELSE [kind |-> "return", val |-> payload.html]

Missing == "<missing>"
AliasHeader == "aliases / "

\* one <td> of the row walk: st is (process_table_cells, aliases, pending exception)
ScrapeCell(st, odd, td) ==
    IF st.exc # "none" THEN st
    ELSE IF odd THEN
        IF td.cls # "diff-lineno" THEN [st EXCEPT !.process_table_cells = FALSE]
        ELSE [st EXCEPT !.process_table_cells = StartsWith(td.txt, << AliasHeader >>)]
    ELSE IF ~st.process_table_cells THEN st
    ELSE IF td.cls = "diff-deletedline" THEN
        IF td.del = Missing THEN [st EXCEPT !.exc = "AttributeError"]
        ELSE [st EXCEPT !.remove = Append(@, td.del)]
    ELSE IF td.cls = "diff-addedline" THEN
        IF td.ins = Missing THEN [st EXCEPT !.exc = "AttributeError"]
        ELSE [st EXCEPT !.add = Append(@, td.ins)]
    ELSE st

RECURSIVE ScrapeCells(_, _, _, _)
ScrapeCells(st, odd, tds, j) ==
    IF j > Len(tds) THEN st
    ELSE ScrapeCells(ScrapeCell(st, odd, tds[j]), odd, tds, j + 1)

RECURSIVE ScrapeRows(_, _, _)
ScrapeRows(st, trs, n) ==
    IF n > Len(trs) THEN st
    ELSE ScrapeRows(ScrapeCells(st, n % 2 = 1, trs[n], 1), trs, n + 1)

\* diff is the compare call's HTML: the empty string, a string lxml builds no
\* tree from, or the <tr> rows of the tree in document order, each the list
\* of its <td> children
scrape_aliases_from_diff(diff) ==
    IF diff.kind = "empty" THEN Raise("RuntimeError")
    ELSE IF diff.kind = "notree" THEN Raise("RuntimeError")
    ELSE LET st == ScrapeRows([process_table_cells |-> FALSE, add |-> <<>>,
                               remove |-> <<>>, exc |-> "none"], diff.trs, 1)
         IN  IF st.exc # "none" THEN Raise(st.exc)
             ELSE [kind |-> "return", val |-> DictValue(st.add, st.remove)]

\* lines 190-196: the value of an alias intent
AliasValue(payload) ==
    LET got == get_revision_diff(payload)
    IN  IF got.kind = "raise" THEN
            IF got.exc = "RuntimeError" THEN [kind |-> "return", val |-> NoneValue]
            ELSE got
        ELSE scrape_aliases_from_diff(got.val)

----------------------------------------------------------------------------
(* Inputs                                                                  *)

TextA == <<"A">>
TextB == <<"B">>
TextTagged == <<"A", ",", " ", "#suggestededit-add 1.0">>
KeyEn == <<"e", "n">>
KeyDe == <<"d", "e">>
KeyOdd == <<"e", "_", "1">>      \* in no kind's key class as a whole
Qids == { "Q1", "Q2" }
AliasNames == { "X", "Y" }

Summary(act, id, key, text) == Prefix(act) \o id \o KeyBars(act) \o key \o <<" */ ">> \o text

\* summaries the replica returns for an action: all begin with its prefix
Summaries(act) ==
    { Summary(act, <<"1", "2">>, KeyEn, TextA),
      Summary(act, <<"1">>, KeyDe, TextB),
      Summary(act, <<"1">>, KeyOdd, TextA) }

\* the intents a decision function is called with: key and text of a summary
\* that matches, the text replaced by an alias diff or None for alias kinds
IntentSummaries(act) ==
    { Summary(act, <<"1">>, k, t) : k \in { KeyEn, KeyDe }, t \in { TextA, TextB, TextTagged } }

AliasLists == SeqsUpTo(AliasNames, MaxAliases)
AliasValues == { NoneValue } \cup { DictValue(a, r) : a \in AliasLists, r \in AliasLists }

IntentValues(act, text) == IF act \in AliasActions THEN AliasValues ELSE { StrValue(text) }

Td(cls, txt, del, ins) == [cls |-> cls, txt |-> txt, del |-> del, ins |-> ins]
HeaderRow(what) ==
    << Td("diff-lineno", <<what, "en">>, Missing, Missing),
       Td("diff-lineno", <<what, "en">>, Missing, Missing) >>
DeletedRow(a) == << Td("diff-marker", <<>>, Missing, Missing),
                    Td("diff-deletedline", <<>>, a, Missing) >>
AddedRow(a) == << Td("diff-marker", <<>>, Missing, Missing),
                  Td("diff-addedline", <<>>, Missing, a) >>
Tree(trs) == [kind |-> "tree", trs |-> trs]

Diffs ==
    { [kind |-> "empty"],
      [kind |-> "notree"],
      Tree(<< HeaderRow(AliasHeader), AddedRow("X") >>),
      Tree(<< HeaderRow(AliasHeader), DeletedRow("X") >>),
      Tree(<< HeaderRow(AliasHeader), DeletedRow("X") \o AddedRow("Y") >>),
      Tree(<< HeaderRow("label / "), AddedRow("X") >>),
      Tree(<< HeaderRow(AliasHeader), AddedRow(Missing) >>) }

Payloads ==
    { [error |-> "ConnectionError", compare |-> FALSE, star |-> FALSE, html |-> [kind |-> "empty"]],
      [error |-> "none", compare |-> FALSE, star |-> FALSE, html |-> [kind |-> "empty"]],
      [error |-> "none", compare |-> TRUE, star |-> FALSE, html |-> [kind |-> "empty"]] }
    \cup { [error |-> "none", compare |-> TRUE, star |-> TRUE, html |-> d] : d \in Diffs }

\* every mapping from some of the keys to members
Mappings(keys, members) == UNION { [ks -> members] : ks \in SUBSET keys }

ItemFails ==
    { NoFail,
      [call |-> "exists", exc |-> "ValueError"],
      [call |-> "exists", exc |-> "APIError"],
      [call |-> "isRedirectPage", exc |-> "APIError"],
      [call |-> "get", exc |-> "APIError"] }

PageFails ==
    { [call |-> "sitelinks.get", exc |-> "NoUsernameError"],
      [call |-> "fromDBName", exc |-> "UnknownSiteError"],
      [call |-> "page.exists", exc |-> "InvalidTitleError"],
      [call |-> "page.exists", exc |-> "UnsupportedPageError"],
      [call |-> "page.exists", exc |-> "APIError"],
      [call |-> "fromPage", exc |-> "APIError"] }

Live(e, r, sl, la, de, al, pe, co, f) ==
    [exists |-> e, isRedirect |-> r, sitelinks |-> sl, labels |-> la, descriptions |-> de,
     aliases |-> al, page_exists |-> pe, connected |-> co, fail |-> f]

NoMap == << >>

\* the live states a decision of this kind may meet: everything its function reads
LiveStates(act) ==
    IF act \in SitelinkActions THEN
        { Live(e, r, sl, NoMap, NoMap, NoMap, pe, co, f) :
            e \in BOOLEAN, r \in BOOLEAN, sl \in Mappings({ KeyEn, KeyDe }, { TextA, TextB }),
            pe \in BOOLEAN, co \in Qids \cup { NoItem }, f \in ItemFails \cup PageFails }
    ELSE IF act \in LabelActions THEN
        { Live(e, r, NoMap, la, NoMap, NoMap, FALSE, NoItem, f) :
            e \in BOOLEAN, r \in BOOLEAN, la \in Mappings({ KeyEn, KeyDe }, { TextA, TextB }),
            f \in ItemFails }
    ELSE IF act \in DescriptionActions THEN
        { Live(e, r, NoMap, NoMap, de, NoMap, FALSE, NoItem, f) :
            e \in BOOLEAN, r \in BOOLEAN, de \in Mappings({ KeyEn, KeyDe }, { TextA, TextB }),
            f \in ItemFails }
    ELSE IF act \in AliasActions THEN
        { Live(e, r, NoMap, NoMap, NoMap, al, FALSE, NoItem, f) :
            e \in BOOLEAN, r \in BOOLEAN, al \in Mappings({ KeyEn, KeyDe }, SUBSET AliasNames),
            f \in ItemFails }
    ELSE { Live(e, r, NoMap, NoMap, NoMap, NoMap, FALSE, NoItem, NoFail) :
            e \in BOOLEAN, r \in BOOLEAN }

----------------------------------------------------------------------------
(* One job: process_revision_subset(action, pattern, check_function)       *)

VARIABLES
    action,         \* the job's edit kind
    pc,             \* where the job is
    replica,        \* the replica connection: "closed" or "open"
    query_result,   \* rows of query_revision_subset
    i,              \* enumerate index of the row in hand
    qid, key, value,    \* locals of the loop body
    live,           \* the live state a decision is taken on
    diff,           \* the diff a scrape is run on
    verdict,        \* what check_function returned last
    calls,          \* check_function and SITE.patrol calls made so far, in order
    exc             \* the exception on its way out, "none" if there is none

vars ==
    << action, pc, replica, query_result, i, qid, key, value, live, diff, verdict, calls, exc >>

NoLive == [unset |-> TRUE]
NoDiff == [kind |-> "unset"]

Row(n, title, text) == [rc_this_oldid |-> n, rc_title |-> title, comment_text |-> text]

Call(op, rev, val, result) == [op |-> op, rev |-> rev, value |-> val, result |-> result]

Init ==
    /\ action \in Actions
    /\ pc = "start"
    /\ replica = "closed"
    /\ query_result = << >>
    /\ i = 0
    /\ qid = ""
    /\ key = << >>
    /\ value = StrValue(<< >>)
    /\ live = NoLive
    /\ diff = NoDiff
    /\ verdict = FALSE
    /\ calls = << >>
    /\ exc = "none"

\* WikidataReplica.__init__: mariadb.connect and the cursor
Connect ==
    /\ pc = "start"
    /\ \/ /\ replica' = "open"
          /\ pc' = "connected"
          /\ exc' = exc
       \/ /\ replica' = replica
          /\ pc' = "raised"
          /\ exc' = "mariadb.Error"
    /\ UNCHANGED << diff, action, query_result, i, qid, key, value, live, verdict, calls >>

\* db_cursor.execute and fetchall inside the with block
Execute ==
    /\ pc = "connected"
    /\ action \in Actions
    /\ pc' = "exit"
    /\ \/ /\ \E n \in 0..MaxRows : \E texts \in [1..n -> Summaries(action)] :
                query_result' = [k \in 1..n |-> Row(k, "Q1", texts[k])]
          /\ exc' = exc
       \/ /\ query_result' = query_result
          /\ exc' = "mariadb.Error"
    /\ UNCHANGED << diff, action, replica, i, qid, key, value, live, verdict, calls >>

\* WikidataReplica.__exit__ closing the cursor only
ExitKeepsOpen ==
    /\ pc = "exit"
    /\ replica' = replica
    /\ pc' = IF exc # "none" THEN "raised"
             ELSE IF action \in Actions THEN "loop"
             ELSE "patrol_revisions"
    /\ UNCHANGED << diff, action, query_result, i, qid, key, value, live, verdict, calls, exc >>

\* WikidataReplica.__exit__: runs on return and on an exception alike
Exit ==
    /\ pc = "exit"
    /\ replica' = "closed"
    /\ pc' = IF exc # "none" THEN "raised"
             ELSE IF action \in Actions THEN "loop"
             ELSE "patrol_revisions"
    /\ UNCHANGED << diff, action, query_result, i, qid, key, value, live, verdict, calls, exc >>

\* the for statement, re_match and the locals of lines 185-188
NextRow ==
    /\ pc = "loop"
    /\ i < Len(query_result)
    /\ i' = i + 1
    /\ LET elem == query_result[i + 1]
           match == re_match(action, elem.comment_text)
       IN  IF ~match.matched
           THEN /\ pc' = "loop"
                /\ UNCHANGED << qid, key, value >>
           ELSE /\ qid' = elem.rc_title
                /\ key' = match.group2
                /\ value' = StrValue(match.group3)
                /\ pc' = IF IsAliasAction(action) THEN "diff" ELSE "check"
    /\ UNCHANGED << diff, action, replica, query_result, live, verdict, calls, exc >>

\* the loop is exhausted
Finish ==
    /\ pc = "loop"
    /\ i = Len(query_result)
    /\ pc' = "done"
    /\ UNCHANGED << diff, action, replica, query_result, i, qid, key, value, live, verdict, calls, exc >>

\* lines 190-196 for an alias kind
GetDiff ==
    /\ pc = "diff"
    /\ diff = NoDiff
    /\ \E payload \in Payloads :
          LET got == AliasValue(payload)
          IN  IF got.kind = "raise"
              THEN /\ pc' = "raised"
                   /\ exc' = got.exc
                   /\ value' = value
              ELSE /\ pc' = "check"
                   /\ exc' = exc
                   /\ value' = got.val
    /\ UNCHANGED << diff, action, replica, query_result, i, qid, key, live, verdict, calls >>

\* line 198: check_function(qid=qid, key=key, value=value)
CallCheckFunction ==
    /\ pc = "check"
    /\ live = NoLive
    /\ \E now \in LiveStates(action) :
          LET r == check_function(action, qid, key, value, now)
              rev == query_result[i].rc_this_oldid
          IN  IF r.kind = "raise"
              THEN /\ pc' = "raised"
                   /\ exc' = r.exc
                   /\ verdict' = verdict
                   /\ calls' = Append(calls, Call("check_function", rev, value, "raise"))
              ELSE /\ pc' = "decided"
                   /\ exc' = exc
                   /\ verdict' = r.val
                   /\ calls' = Append(calls, Call("check_function", rev, value,
                                                  IF r.val THEN "True" ELSE "False"))
    /\ UNCHANGED << diff, action, replica, query_result, i, qid, key, value, live >>

\* line 204: next(SITE.patrol(revid=revision_id)) when check_function returned True
Patrol ==
    /\ pc = "decided"
    /\ verdict = TRUE
    /\ LET rev == query_result[i].rc_this_oldid
       IN  \/ /\ calls' = Append(calls, Call("patrol", rev, value, "ok"))
              /\ pc' = "loop"
              /\ exc' = exc
           \/ \E e \in { "Error", "StopIteration" } :
                 /\ calls' = Append(calls, Call("patrol", rev, value, "raise"))
                 /\ pc' = "raised"
                 /\ exc' = e
    /\ UNCHANGED << diff, action, replica, query_result, i, qid, key, value, live, verdict >>

\* lines 206-208: no patrol, at most a progress line
Progress ==
    /\ pc = "decided"
    /\ verdict # TRUE
    /\ pc' = "loop"
    /\ UNCHANGED << diff, action, replica, query_result, i, qid, key, value, live, verdict, calls, exc >>

Next ==
    \/ Connect
    \/ Execute
    \/ Exit
    \/ NextRow
    \/ Finish
    \/ GetDiff
    \/ CallCheckFunction
    \/ Patrol
    \/ Progress

Spec == Init /\ [][Next]_vars

----------------------------------------------------------------------------
(* main: SITE.login(), then every job in turn                              *)

GenericJobs == { "mw-reverted", "redirected-items" }

MainJobs ==
    << "mw-reverted", "redirected-items",
       "wbsetsitelink-add", "wbsetsitelink-remove", "clientsitelink-remove",
       "wbsetlabel-add", "wbsetlabel-remove", "wbsetlabel-set",
       "wbsetdescription-add", "wbsetdescription-remove", "wbsetdescription-set",
       "wbsetaliases-add", "wbsetaliases-remove", "wbsetaliases-set", "wbsetaliases-update" >>

JobIndex(job) == CHOOSE n \in 1..Len(MainJobs) : MainJobs[n] = job

MergeActions == { "wbmergeitems-to", "wbmergeitems-from", "wbcreateredirect" }

\* summaries of unpatrolled changes of redirected items
GenericSummaries ==
    { <<"/* ", "wbmergeitems-to", ":">>, <<"/* ", "wbcreateredirect", ":">>,
      <<"/* ", "wbsetlabel-set", ":">> }

\* rev_ids of get_reverted_unpatrolled_revisions / get_revisions_in_redirected_items
rev_ids(job, rows) ==
    LET kept == IF job = "mw-reverted" THEN rows
                ELSE SelectSeq(rows, LAMBDA r : Range(r.comment_text) \cap MergeActions = {})
    IN  [n \in 1..Len(kept) |-> kept[n].rc_this_oldid]

InitMain ==
    /\ action = MainJobs[1]
    /\ pc = "login"
    /\ replica = "closed"
    /\ query_result = << >>
    /\ i = 0
    /\ qid = ""
    /\ key = << >>
    /\ value = StrValue(<< >>)
    /\ live = NoLive
    /\ diff = NoDiff
    /\ verdict = FALSE
    /\ calls = << >>
    /\ exc = "none"

\* SITE.login()
Login ==
    /\ pc = "login"
    /\ \/ pc' = "start" /\ exc' = exc
       \/ pc' = "raised" /\ exc' = "NoUsernameError"
    /\ UNCHANGED << diff, action, replica, query_result, i, qid, key, value, live, verdict, calls >>

\* db_cursor.execute and fetchall for the two jobs that patrol whole lists
ExecuteGeneric ==
    /\ pc = "connected"
    /\ action \in GenericJobs
    /\ pc' = "exit"
    /\ \/ /\ \E n \in 0..MaxRows : \E texts \in [1..n -> GenericSummaries] :
                query_result' = [k \in 1..n |-> Row(k, "Q1", texts[k])]
          /\ exc' = exc
       \/ /\ query_result' = query_result
          /\ exc' = "mariadb.Error"
    /\ UNCHANGED << diff, action, replica, i, qid, key, value, live, verdict, calls >>

\* patrol_revisions(rev_ids): nothing for an empty list; an APIError of
\* SITE.patrol ends it; else next(patrols) until the generator stops, which
\* it does after the first exception it lets out
PatrolRevisions ==
    /\ pc = "patrol_revisions"
    /\ pc' = "done"
    /\ LET ids == rev_ids(action, query_result)
           cnt == Len(ids)
       IN  \/ calls' = calls
           \/ /\ cnt > 0
              /\ \E done \in 0..cnt :
                    calls' = calls
                        \o [n \in 1..done |-> Call("patrol", ids[n], value, "ok")]
                        \o (IF done < cnt
                            THEN << Call("patrol", ids[done + 1], value, "raise") >>
                            ELSE << >>)
    /\ UNCHANGED << diff, action, replica, query_result, i, qid, key, value, live, verdict, exc >>

\* main calls the next job: its locals are new
NextJob ==
    /\ pc = "done"
    /\ JobIndex(action) < Len(MainJobs)
    /\ action' = MainJobs[JobIndex(action) + 1]
    /\ pc' = "start"
    /\ query_result' = << >>
    /\ i' = 0
    /\ qid' = ""
    /\ key' = << >>
    /\ value' = StrValue(<< >>)
    /\ verdict' = FALSE
    /\ calls' = << >>
    /\ UNCHANGED << replica, live, diff, exc >>

NextMain ==
    \/ Login
    \/ Connect
    \/ Execute
    \/ ExecuteGeneric
    \/ Exit
    \/ PatrolRevisions
    \/ NextRow
    \/ Finish
    \/ GetDiff
    \/ CallCheckFunction
    \/ Patrol
    \/ Progress
    \/ NextJob

SpecMain == InitMain /\ [][NextMain]_vars

----------------------------------------------------------------------------
(* One decision: a should_patrol_* function applied to an intent and to    *)
(* the live state it meets                                                 *)

IntentQids(act) == IF act \in SitelinkActions THEN Qids ELSE { "Q1" }

InitDecide ==
    /\ action \in Actions
    /\ pc = "check"
    /\ replica = "closed"
    /\ i = 1
    /\ \E text \in IntentSummaries(action) :
          LET match == re_match(action, text)
          IN  /\ match.matched
              /\ qid \in IntentQids(action)
              /\ query_result = << Row(1, qid, text) >>
              /\ key = match.group2
              /\ value \in IntentValues(action, match.group3)
    /\ live \in LiveStates(action)
    /\ diff = NoDiff
    /\ verdict = FALSE
    /\ calls = << >>
    /\ exc = "none"

\* line 198 on the live state in hand
Decide ==
    /\ pc = "check"
    /\ live # NoLive
    /\ LET r == check_function(action, qid, key, value, live)
       IN  IF r.kind = "raise"
           THEN /\ pc' = "raised"
                /\ exc' = r.exc
                /\ verdict' = verdict
           ELSE /\ pc' = "decided"
                /\ exc' = exc
                /\ verdict' = r.val
    /\ UNCHANGED << diff, action, replica, query_result, i, qid, key, value, live, calls >>

NextDecide == Decide

SpecDecide == InitDecide /\ [][NextDecide]_vars

----------------------------------------------------------------------------
(* One extraction: scrape_aliases_from_diff applied to a diff              *)

MaxTrs == 4     \* <tr> rows of a diff table

AliasCell == Td("diff-lineno", << AliasHeader, "en" >>, Missing, Missing)
LabelCell == Td("diff-lineno", << "label / ", "en" >>, Missing, Missing)
MarkerCell == Td("diff-marker", << >>, Missing, Missing)

\* rows of a diff table: no <td>, header cells in every order, content cells
TableRows ==
    { << >>, << AliasCell >>, << LabelCell >>, HeaderRow(AliasHeader),
      << LabelCell, AliasCell >>, << AliasCell, LabelCell >>, << AliasCell, MarkerCell >>,
      DeletedRow("X"), AddedRow("Y"), DeletedRow("X") \o AddedRow("Y") }

ScrapeDiffs ==
    { [kind |-> "empty"], [kind |-> "notree"] }
        \cup { Tree(trs) : trs \in SeqsUpTo(TableRows, MaxTrs) }

InitScrape ==
    /\ action \in AliasActions
    /\ pc = "diff"
    /\ replica = "closed"
    /\ query_result = << Row(1, "Q1", Summary(action, << "1" >>, KeyEn, TextA)) >>
    /\ i = 1
    /\ qid = "Q1"
    /\ key = KeyEn
    /\ value = StrValue(TextA)
    /\ live = NoLive
    /\ diff \in ScrapeDiffs
    /\ verdict = FALSE
    /\ calls = << >>
    /\ exc = "none"

\* line 196 on the diff in hand
Scrape ==
    /\ pc = "diff"
    /\ diff # NoDiff
    /\ LET r == scrape_aliases_from_diff(diff)
       IN  IF r.kind = "raise"
           THEN /\ pc' = "raised"
                /\ exc' = r.exc
                /\ value' = value
           ELSE /\ pc' = "check"
                /\ exc' = exc
                /\ value' = r.val
    /\ UNCHANGED << diff, action, replica, query_result, i, qid, key, live, verdict, calls >>

NextScrape == Scrape

SpecScrape == InitScrape /\ [][NextScrape]_vars

----------------------------------------------------------------------------
(* Properties                                                              *)

\* a decision has been taken or has let an exception out
Decided == pc \in { "decided", "raised" }

\* the item's lookups answered: it exists and is not a redirect, and no call failed
PlainItem == live.fail = NoFail /\ live.exists /\ ~live.isRedirect

\* the item's first two lookups answered: it exists and is a redirect
RedirectItem ==
    /\ live.fail.call \notin { "exists", "isRedirectPage" }
    /\ live.exists
    /\ live.isRedirect

\* the entity's current aliases in the intent's language
CurrentAliases == IF key \in DOMAIN live.aliases THEN live.aliases[key] ELSE {}

\* C1 as stated: every kind but the site-link deletion approves on a redirect
\* whenever the value is not None.
C1_AsClaimed ==
    (Decided /\ action \notin DeletionActions /\ live.fail = NoFail /\ live.exists
        /\ live.isRedirect /\ value # NoneValue)
    => (pc = "decided" /\ verdict = TRUE)

\* C1: for every kind other than site-link removal and site-link deletion, when
\* the live entity exists and is a redirect and the value is not None (and an
\* alias addition carries no removed entry, an alias removal no added entry),
\* the decision is approve, whatever the key and the value.
C1_RedirectApproved ==
    (/\ Decided
     /\ action \notin DeletionActions \cup { "wbsetsitelink-remove" }
     /\ RedirectItem
     /\ value # NoneValue
     /\ action = "wbsetaliases-add" => Len(value.remove) = 0
     /\ action = "wbsetaliases-remove" => Len(value.add) = 0)
    => (pc = "decided" /\ verdict = TRUE)

C1_Witness ==
    /\ pc = "decided"
    /\ action = "wbsetdescription-remove"
    /\ RedirectItem
    /\ key \notin DOMAIN live.descriptions
    /\ verdict = TRUE

\* C2: an alias intent whose value is None is denied on every live state (the
\* decision function returns False, it neither approves nor raises), and no
\* SITE.patrol call is made for it.
C2_NullValueDenied ==
    /\ (pc = "decided" /\ value = NoneValue) => verdict = FALSE
    /\ \A n \in 1..Len(calls) :
          calls[n].value = NoneValue =>
              /\ action \in AliasActions
              /\ calls[n].op = "check_function"
              /\ calls[n].result = "False"

C2_Witness ==
    /\ pc = "loop"
    /\ i = 2
    /\ Len(calls) = 2
    /\ calls[1].value = NoneValue
    /\ calls[2].value = NoneValue

\* C3 as stated: on an item that exists and is not a redirect, with no lookup
\* error, a site-link removal is approved exactly when the link is back with
\* the same target, or the target page is gone, or the target page is
\* connected to another item; for every content of the site-link mapping.
C3_AsClaimed ==
    (Decided /\ action = "wbsetsitelink-remove" /\ PlainItem)
    => /\ pc = "decided"
       /\ verdict <=>
            \/ key \in DOMAIN live.sitelinks /\ live.sitelinks[key] = value.s
            \/ ~live.page_exists
            \/ live.page_exists /\ live.connected \notin { NoItem, qid }

\* C4 as stated: an alias removal with no added entries is approved only if
\* all removed aliases are still absent.
C4_AsClaimed ==
    (/\ pc = "decided"
     /\ action = "wbsetaliases-remove"
     /\ PlainItem
     /\ value # NoneValue
     /\ Len(value.add) = 0
     /\ verdict = TRUE)
    => \A a \in Range(value.remove) : a \notin CurrentAliases

\* C4: an alias removal with no added entries, on an item that exists and is
\* not a redirect, is approved only if the item has aliases in that language
\* and every removed alias is among them again.
C4_RemovedPresentAgain ==
    (/\ pc = "decided"
     /\ action = "wbsetaliases-remove"
     /\ PlainItem
     /\ value # NoneValue
     /\ Len(value.add) = 0
     /\ verdict = TRUE)
    => /\ key \in DOMAIN live.aliases
       /\ \A a \in Range(value.remove) : a \in CurrentAliases

C4_Witness ==
    /\ pc = "decided"
    /\ action = "wbsetaliases-remove"
    /\ PlainItem
    /\ value # NoneValue
    /\ Len(value.add) = 0
    /\ Len(value.remove) > 0
    /\ verdict = TRUE

\* C5 as stated: an alias set / update is approved only if every removed alias
\* is still absent and every added alias is no longer present.
C5_AsClaimed ==
    (/\ pc = "decided"
     /\ action \in { "wbsetaliases-set", "wbsetaliases-update" }
     /\ PlainItem
     /\ value # NoneValue
     /\ verdict = TRUE)
    => /\ \A a \in Range(value.remove) : a \notin CurrentAliases
       /\ \A a \in Range(value.add) : a \notin CurrentAliases

\* C5: an alias set / update, on an item that exists and is not a redirect, is
\* approved only if every removed alias is present again and every added alias
\* is no longer present.
C5_FullReversal ==
    (/\ pc = "decided"
     /\ action \in { "wbsetaliases-set", "wbsetaliases-update" }
     /\ PlainItem
     /\ value # NoneValue
     /\ verdict = TRUE)
    => /\ \A a \in Range(value.remove) : a \in CurrentAliases
       /\ \A a \in Range(value.add) : a \notin CurrentAliases

C5_Witness ==
    /\ pc = "decided"
    /\ action = "wbsetaliases-update"
    /\ PlainItem
    /\ value # NoneValue
    /\ Len(value.remove) > 0
    /\ Len(value.add) > 0
    /\ verdict = TRUE

\* C6: an alias addition is denied whenever the value is None or the diff has
\* removed entries; otherwise, on an item that exists and is not a redirect,
\* it is approved exactly when the item has no aliases, or none in that
\* language (no entry or an empty one), or none of the added aliases is there.
C6_AliasAddition ==
    (Decided /\ action = "wbsetaliases-add")
    => /\ (value = NoneValue \/ Len(value.remove) > 0)
            => (pc = "decided" /\ verdict = FALSE)
       /\ (value # NoneValue /\ Len(value.remove) = 0 /\ PlainItem)
            => /\ pc = "decided"
               /\ verdict <=>
                    \/ IsEmpty(live.aliases)
                    \/ CurrentAliases = {}
                    \/ \A a \in Range(value.add) : a \notin CurrentAliases

C6_Witness ==
    /\ pc = "decided"
    /\ action = "wbsetaliases-add"
    /\ PlainItem
    /\ value # NoneValue
    /\ Len(value.remove) = 0
    /\ Len(value.add) > 0
    /\ key \in DOMAIN live.aliases
    /\ \E a \in Range(value.add) : a \in CurrentAliases
    /\ verdict = FALSE

\* C7: a label addition or modification, on an item that exists and is not a
\* redirect, is approved exactly when the item has no labels, or none in that
\* language, or a label in that language that differs from the edited value.
C7_LabelModification ==
    (Decided /\ action \in { "wbsetlabel-add", "wbsetlabel-set" } /\ PlainItem)
    => /\ pc = "decided"
       /\ verdict <=>
            \/ IsEmpty(live.labels)
            \/ key \notin DOMAIN live.labels
            \/ live.labels[key] # value.s

C7_Witness ==
    /\ pc = "decided"
    /\ action = "wbsetlabel-set"
    /\ PlainItem
    /\ key \in DOMAIN live.labels
    /\ live.labels[key] = value.s
    /\ verdict = FALSE

\* the job is over: the loop ran out or an exception left it
Ended == pc \in { "done", "raised" }

\* C8 as stated: a SITE.patrol call that raises does not end the batch: the
\* job still takes every later row in hand.
C8_AsClaimed ==
    (Ended /\ \E n \in 1..Len(calls) : calls[n].op = "patrol" /\ calls[n].result = "raise")
    => i = Len(query_result)

\* C9 as stated: a failure of the extractor (the RuntimeError of
\* get_revision_diff or of scrape_aliases_from_diff) makes the value None and
\* never ends the job.
C9_AsClaimed == [][pc = "diff" => ~(pc' = "raised" /\ exc' = "RuntimeError")]_vars

\* C10 as stated: an error of a live-state lookup denies the one candidate and
\* the job goes on: no check_function call lets an exception out.
C10_AsClaimed ==
    \A n \in 1..Len(calls) : calls[n].op = "check_function" => calls[n].result # "raise"

\* the summary is of the kind's grammar: prefix, digits, bars, a key of the
\* kind's class, " */ ", any text
MatchesGrammar(act, text) ==
    \E a \in 1..Len(text) : \E b \in a..Len(text) :
        LET id == SubSeq(text, Len(Prefix(act)) + 1, a)
            rest == SubSeq(text, a + 1, b)
            bars == KeyBars(act)
            k == SubSeq(rest, Len(bars) + 1, Len(rest))
        IN  /\ SubSeq(text, 1, Len(Prefix(act))) = Prefix(act)
            /\ id # << >> /\ Range(id) \subseteq Digits
            /\ Len(rest) > Len(bars)
            /\ SubSeq(rest, 1, Len(bars)) = bars
            /\ Range(k) \subseteq KeyClass(act)
            /\ b + 1 <= Len(text)
            /\ text[b + 1] = " */ "

RevsOf(seq) == [n \in 1..Len(seq) |-> seq[n].rev]
CheckCalls == SelectSeq(calls, LAMBDA c : c.op = "check_function")
PatrolCalls == SelectSeq(calls, LAMBDA c : c.op = "patrol")
ApprovedCalls == SelectSeq(CheckCalls, LAMBDA c : c.result = "True")
MatchingRows ==
    SelectSeq(SubSeq(query_result, 1, i), LAMBDA r : MatchesGrammar(action, r.comment_text))

\* C11: while no call has raised, the check_function calls are those for the
\* rows taken so far whose summary matches the grammar, in row order, and the
\* SITE.patrol calls are those for the rows check_function approved, in row
\* order, one each: a row whose summary does not match gets neither call.
C11_PatrolSequence ==
    pc \in { "loop", "done" }
    => /\ RevsOf(CheckCalls) = [n \in 1..Len(MatchingRows) |-> MatchingRows[n].rc_this_oldid]
       /\ RevsOf(PatrolCalls) = RevsOf(ApprovedCalls)
       /\ \A n \in 1..Len(PatrolCalls) : PatrolCalls[n].result = "ok"

C11_Witness ==
    /\ pc = "done"
    /\ Len(query_result) = 2
    /\ ~MatchesGrammar(action, query_result[1].comment_text)
    /\ MatchesGrammar(action, query_result[2].comment_text)
    /\ RevsOf(PatrolCalls) = << 2 >>

\* a remote API call (login, compare, entity read, mark reviewed) is the next step
RemoteCall ==
    \/ pc \in { "login", "diff", "check", "patrol_revisions" }
    \/ pc = "decided" /\ verdict = TRUE

\* C12: in every job of main the replica connection is closed whenever a
\* remote API call is made; while it is open the job does nothing but its
\* one query and the close, also when the query raised; and every job
\* starts by opening it.
C12_ReplicaReleased ==
    /\ [](RemoteCall => replica = "closed")
    /\ [][replica = "open" =>
            \/ pc = "connected" /\ pc' = "exit" /\ replica' = "open"
            \/ pc = "exit" /\ replica' = "closed"]_vars
    /\ [][pc = "start" => (replica' = "open" \/ pc' = "raised")]_vars

C12_Witness ==
    /\ action = "wbsetaliases-update"
    /\ pc = "decided"
    /\ verdict = TRUE
    /\ replica = "closed"
    /\ Len(calls) > 1

\* position of the first diff-lineno cell of a row, 0 if it has none
FirstLabelled(tds) ==
    LET js == { j \in 1..Len(tds) : tds[j].cls = "diff-lineno" }
    IN  IF js = {} THEN 0 ELSE CHOOSE j \in js : \A k \in js : j <= k

\* row n is a content row and the header row before it names aliases
OfInterest(trs, n) ==
    /\ n % 2 = 0
    /\ LET j == FirstLabelled(trs[n - 1])
       IN  j > 0 /\ StartsWith(trs[n - 1][j].txt, << AliasHeader >>)

\* the cells of class cls in the rows of interest from row n on, in order
RECURSIVE CellsOfInterest(_, _, _)
CellsOfInterest(trs, n, cls) ==
    IF n > Len(trs) THEN << >>
    ELSE (IF OfInterest(trs, n) THEN SelectSeq(trs[n], LAMBDA td : td.cls = cls) ELSE << >>)
            \o CellsOfInterest(trs, n + 1, cls)

\* no odd row goes on after a first diff-lineno cell that names aliases
EndsWithAliasHeader(trs) ==
    \A n \in 1..Len(trs) :
        LET j == FirstLabelled(trs[n])
        IN  (n % 2 = 1 /\ j > 0 /\ StartsWith(trs[n][j].txt, << AliasHeader >>))
                => j = Len(trs[n])

\* C13 as stated: the deleted / added cells of an even row count exactly when
\* the first diff-lineno cell of the odd row before it begins with
\* "aliases / "; every other odd row (no diff-lineno cell, no cell at all)
\* switches them off.  Stated on diffs whose alias header rows end with that
\* cell.
C13_AsClaimed ==
    (pc = "check" /\ diff # NoDiff /\ diff.kind = "tree" /\ EndsWithAliasHeader(diff.trs))
    => LET deleted == CellsOfInterest(diff.trs, 1, "diff-deletedline")
           added == CellsOfInterest(diff.trs, 1, "diff-addedline")
       IN  /\ value.remove = [n \in 1..Len(deleted) |-> deleted[n].del]
           /\ value.add = [n \in 1..Len(added) |-> added[n].ins]

====
